---- MODULE Spec2Model ----
(***************************************************************************)
(* A model of the ramses_cc adapter: the component set-up, the domain      *)
(* services and events of custom_components/ramses_cc/__init__.py, and the *)
(* binary-sensor platform of custom_components/ramses_cc/binary_sensor.py. *)
(*                                                                         *)
(* Python's optional values are written None == <<>> and Some(x) == <<x>>. *)
(* A dict is a TLA+ record (a function over the keys it holds).            *)
(***************************************************************************)
EXTENDS Integers, Sequences, FiniteSets, TLC

VARIABLES
    \* ---- async_setup
    config,          \* broker.config[CONF_ADVANCED_FEATURES]
    setupResult,     \* None before async_setup ran, then Some(its return value)
    hassData,        \* hass.data[DOMAIN]: the keys stored there
    services,        \* the services registered for DOMAIN
    msgHandlers,     \* the handlers added to broker.client
    \* ---- domain events
    learn_device_id, \* broker.learn_device_id
    bus,             \* the events fired on hass.bus, oldest first
    delivered,       \* the messages the client handed to process_msg
    \* ---- domain services
    hgi,             \* broker.client.hgi
    lastCall,        \* the last service call: its data, outcome and operations
    timers,          \* the pending async_call_later timers
    updates,         \* completed runs of broker.async_update
    now,             \* the event loop's clock, in seconds
    nCalls,          \* service calls made so far
    \* ---- entities
    lifecycle,       \* per entity: "new", "added" or "removed"
    entities,        \* broker._entities: unique_id -> entity
    connections,     \* dispatcher: per entity, its SIGNAL_UPDATE connections
    onRemove,        \* per entity, the callbacks async_on_remove holds
    writes,          \* per entity, async_write_ha_state calls of the last dispatch
    nDispatch,       \* dispatches of SIGNAL_UPDATE so far
    \* ---- binary_sensor platform
    discovery_info,  \* the discovery_info argument
    addCalls,        \* the calls of async_add_entities: each its list of entities
    platformDone,    \* async_setup_platform has returned
    \* ---- binary_sensor properties
    clock,           \* dt.now(), in seconds
    this_msg,        \* gwy._protocol._this_msg
    msgs,            \* device._msgs: code -> message
    ret              \* the last property read: its name and what it returned

setupVars == <<config, setupResult, hassData, services, msgHandlers>>
eventVars == <<learn_device_id, bus, delivered>>
svcVars == <<hgi, lastCall, timers, updates, now, nCalls>>
entVars == <<lifecycle, entities, connections, onRemove, writes, nDispatch>>
platVars == <<discovery_info, addCalls, platformDone>>
sensVars == <<clock, this_msg, msgs, ret>>
vars == <<setupVars, eventVars, svcVars, entVars, platVars, sensVars>>

None == <<>>
Some(x) == <<x>>

\* dict.get(key): None when the key is absent
Get(d, k) == IF k \in DOMAIN d THEN Some(d[k]) ELSE None

\* dict.get(key, default)
GetOr(d, k, default) == IF k \in DOMAIN d THEN d[k] ELSE default

---------------------------------------------------------------------------
\* Bounds of the model.
MaxCalls == 2
MaxTime == 6
MaxMsgs == 2
MaxDispatch == 2
MaxDevices == 3

---------------------------------------------------------------------------
\* Names from const.py, as __init__.py imports them.
BROKER == "broker"
SVC_BIND_DEVICE == "bind_device"
SVC_FAKE_DEVICE == "fake_device"
SVC_FORCE_UPDATE == "force_update"
SVC_SEND_PACKET == "send_packet"
CONF_MESSAGE_EVENTS == "message_events"
CONF_SEND_PACKET == "send_packet"

\* The address a gateway has before its real one is known (__init__.py:179).
SENTINEL_ID == "18:000730"

\* The delay of the update the service handlers schedule (__init__.py:160).
UPDATE_DELAY == 5

---------------------------------------------------------------------------
\* The inputs.

\* A message_events pattern is a compiled regex; with re.match it matches at
\* the start of the text.  The patterns here are literal prefixes.
Regexes == { <<>>, <<"RQ">>, <<" I", "01:145038">> }

\* The advanced_features of the configuration: send_packet may be left out.
AdvancedFeatures ==
    { [message_events |-> r] : r \in {None} \cup {Some(x) : x \in Regexes} }
    \cup { [message_events |-> r, send_packet |-> b] :
             r \in {None} \cup {Some(x) : x \in Regexes}, b \in BOOLEAN }

\* client.hgi: None until the gateway device is known
HgiValues == { None, Some([id |-> ""]), Some([id |-> "18:123456"]) }

---------------------------------------------------------------------------
\* async_setup and the registration of the services (__init__.py).

\* Python's truth value of an optional boolean: None and False are falsy.
Truthy(v) == v # None /\ v[1]

\* A faulty variant of RegisterDomainServices: send_packet is registered whenever the
\* option is present, whatever its value.
RegisterDomainServicesKeyOnly(adv) ==
    {SVC_BIND_DEVICE, SVC_FAKE_DEVICE, SVC_FORCE_UPDATE}
    \cup (IF CONF_SEND_PACKET \in DOMAIN adv THEN {SVC_SEND_PACKET} ELSE {})

\* register_domain_services: the services it registers for a configuration.
RegisterDomainServices(adv) ==
    {SVC_BIND_DEVICE, SVC_FAKE_DEVICE, SVC_FORCE_UPDATE}
    \cup (IF Truthy(Get(adv, CONF_SEND_PACKET)) THEN {SVC_SEND_PACKET} ELSE {})

\* register_domain_events: process_msg is added to the client's handlers.
RegisterDomainEvents(handlers) == handlers \cup {"process_msg"}

\* async_setup.  startOk = FALSE: broker.start() raises TransportSerialError.
AsyncSetup(startOk) ==
    /\ setupResult = None
    /\ IF ~startOk
         THEN /\ setupResult' = Some(FALSE)
              /\ UNCHANGED <<hassData, services, msgHandlers>>
         ELSE /\ hassData' = hassData \cup {BROKER}
              /\ services' = services \cup RegisterDomainServices(config)
              /\ msgHandlers' = RegisterDomainEvents(msgHandlers)
              /\ setupResult' = Some(TRUE)
    /\ UNCHANGED <<config, eventVars, svcVars, entVars, platVars, sensVars>>

---------------------------------------------------------------------------
\* The service handlers (__init__.py, register_domain_services).
\*
\* A handler is an operator from the call's data and what the client library
\* does (lib) to the handler's outcome and the operations it performed, in
\* order.  outcome "returned": the handler returned; any other value names
\* the exception that left it.

FakeDeviceOp(data) == [op |-> "fake_device", kwargs |-> data]
LogErrorOp == [op |-> "log_error"]
CallLaterOp(delay) == [op |-> "call_later", delay |-> delay, target |-> "async_update"]
AsyncUpdateOp == [op |-> "async_update"]
CreateCmdOp(kwargs) == [op |-> "create_cmd", kwargs |-> kwargs]
SendCmdOp(kwargs) == [op |-> "send_cmd", cmd |-> kwargs]

\* What client.fake_device may do: return, raise LookupError, raise another error.
FakeDeviceLib == {"ok", "LookupError", "Error"}
\* What force_update's and send_packet's callees may do: return or raise.
CallLib == {"ok", "Error"}

\* async_bind_device
AsyncBindDevice(data, lib) ==
    IF lib = "LookupError"
      THEN [outcome |-> "returned", ops |-> <<FakeDeviceOp(data), LogErrorOp>>]
    ELSE IF lib = "Error"
      THEN [outcome |-> "Error", ops |-> <<FakeDeviceOp(data)>>]
    ELSE [outcome |-> "returned",
          ops |-> <<FakeDeviceOp(data), CallLaterOp(UPDATE_DELAY)>>]

\* A faulty variant of AsyncFakeDevice: the return after the log is missing.
AsyncFakeDeviceNoReturn(data, lib) ==
    IF lib = "LookupError"
      THEN [outcome |-> "returned",
            ops |-> <<FakeDeviceOp(data), LogErrorOp, CallLaterOp(UPDATE_DELAY)>>]
    ELSE IF lib = "Error"
      THEN [outcome |-> "Error", ops |-> <<FakeDeviceOp(data)>>]
    ELSE [outcome |-> "returned",
          ops |-> <<FakeDeviceOp(data), CallLaterOp(UPDATE_DELAY)>>]

\* async_fake_device
AsyncFakeDevice(data, lib) ==
    IF lib = "LookupError"
      THEN [outcome |-> "returned", ops |-> <<FakeDeviceOp(data), LogErrorOp>>]
    ELSE IF lib = "Error"
      THEN [outcome |-> "Error", ops |-> <<FakeDeviceOp(data)>>]
    ELSE [outcome |-> "returned",
          ops |-> <<FakeDeviceOp(data), CallLaterOp(UPDATE_DELAY)>>]

\* async_force_update: awaits broker.async_update()
AsyncForceUpdate(lib) ==
    IF lib = "Error"
      THEN [outcome |-> "Error", ops |-> <<>>]
      ELSE [outcome |-> "returned", ops |-> <<AsyncUpdateOp>>]

\* async_send_packet.  h is broker.client.hgi; reading h.id when h is None
\* raises AttributeError (the third operand of the `and` is reached only when
\* the first two hold).
AsyncSendPacket(data, h, lib) ==
    LET wanted == /\ data.device_id = SENTINEL_ID
                  /\ GetOr(data, "from_id", SENTINEL_ID) = SENTINEL_ID
    IN  IF wanted /\ h = None
          THEN [outcome |-> "AttributeError", ops |-> <<>>]
        ELSE LET kwargs == IF wanted /\ h[1].id # ""
                             THEN [data EXCEPT !.device_id = h[1].id]
                             ELSE data
             IN  IF lib = "Error"
                   THEN [outcome |-> "Error", ops |-> <<CreateCmdOp(kwargs)>>]
                   ELSE [outcome |-> "returned",
                         ops |-> <<CreateCmdOp(kwargs), SendCmdOp(kwargs),
                                   CallLaterOp(UPDATE_DELAY)>>]

---------------------------------------------------------------------------
\* Service calls.  hass.services.async_call validates the data against the
\* service's schema before the handler runs, and verify_domain_control lets
\* the handler run for a caller allowed to control the domain; the actions
\* below are the calls that reach the handler's body.

DeviceIds == {SENTINEL_ID, "01:145038"}

\* SVC_BIND_DEVICE_SCHEMA: the keys of a validated call (defaults filled in)
SVC_BIND_DEVICE_SCHEMA(data) ==
    DOMAIN data = {"device_id", "tender", "affirm", "device_info"}

\* SVC_FAKE_DEVICE_SCHEMA: the keys of a validated call (defaults filled in)
SVC_FAKE_DEVICE_SCHEMA(data) ==
    /\ DOMAIN data = {"device_id", "create_device", "start_binding"}
    /\ data.create_device \in BOOLEAN
    /\ data.start_binding \in BOOLEAN

\* SVC_SEND_PACKET_SCHEMA: four required keys, and no other key (a
\* vol.Schema refuses extra keys unless told otherwise)
SVC_SEND_PACKET_SCHEMA(data) ==
    /\ DOMAIN data = {"device_id", "verb", "code", "payload"}
    /\ data.verb \in {" I", "I", "RQ", "RP", " W", "W"}

BindData ==
    { [device_id |-> d, tender |-> "1FC9", affirm |-> "none", device_info |-> "none"] :
        d \in DeviceIds }

FakeData ==
    { [device_id |-> d, create_device |-> c, start_binding |-> FALSE] :
        d \in DeviceIds, c \in BOOLEAN }

SendData ==
    { [device_id |-> d, verb |-> v, code |-> "1F09", payload |-> "00"] :
        d \in DeviceIds, v \in {"RQ", "XX"} }
    \cup { [device_id |-> d, verb |-> "RQ", code |-> "1F09", payload |-> "00",
            from_id |-> f] : d \in DeviceIds, f \in {SENTINEL_ID, "18:111111"} }

\* The positions of the async_call_later calls among a handler's operations
CallLaters(ops) == { i \in DOMAIN ops : ops[i].op = "call_later" }

\* The number of completed broker.async_update runs among them
UpdateRuns(ops) == Cardinality({ i \in DOMAIN ops : ops[i].op = "async_update" })

\* One call of service svc: the handler's result res takes effect.
\* async_call_later(delay, f) arms a timer due delay seconds from now.
ServiceCall(svc, data, lib, res) ==
    /\ svc \in services
    /\ nCalls < MaxCalls
    /\ nCalls' = nCalls + 1
    /\ lastCall' = Some([svc |-> svc, data |-> data, lib |-> lib, at |-> now,
                         outcome |-> res.outcome, ops |-> res.ops])
    /\ timers' = timers \cup
         { [id |-> <<nCalls + 1, i>>, due |-> now + res.ops[i].delay] :
             i \in CallLaters(res.ops) }
    /\ updates' = updates + UpdateRuns(res.ops)
    /\ UNCHANGED <<hgi, now, setupVars, eventVars, entVars, platVars, sensVars>>

CallBindDevice ==
    \E data \in BindData, lib \in FakeDeviceLib :
        /\ SVC_BIND_DEVICE_SCHEMA(data)
        /\ ServiceCall(SVC_BIND_DEVICE, data, lib, AsyncBindDevice(data, lib))

CallFakeDevice ==
    \E data \in FakeData, lib \in FakeDeviceLib :
        /\ SVC_FAKE_DEVICE_SCHEMA(data)
        /\ ServiceCall(SVC_FAKE_DEVICE, data, lib, AsyncFakeDevice(data, lib))

CallForceUpdate ==
    \E lib \in CallLib :
        ServiceCall(SVC_FORCE_UPDATE, None, lib, AsyncForceUpdate(lib))

CallSendPacket ==
    \E data \in SendData, lib \in CallLib :
        /\ SVC_SEND_PACKET_SCHEMA(data)
        /\ ServiceCall(SVC_SEND_PACKET, data, lib, AsyncSendPacket(data, hgi, lib))

\* A second passes; the event loop runs a timer no later than when it is due.
Tick ==
    /\ now < MaxTime
    /\ \A t \in timers : t.due > now
    /\ now' = now + 1
    /\ UNCHANGED <<hgi, lastCall, timers, updates, nCalls>>
    /\ UNCHANGED <<setupVars, eventVars, entVars, platVars, sensVars>>

\* broker.async_update: one completed run
BrokerAsyncUpdate(n) == n + 1

\* A timer armed by async_call_later comes due: broker.async_update runs.
TimerFire ==
    \E t \in timers :
        /\ t.due = now
        /\ timers' = timers \ {t}
        /\ updates' = BrokerAsyncUpdate(updates)
        /\ UNCHANGED <<hgi, lastCall, now, nCalls>>
        /\ UNCHANGED <<setupVars, eventVars, entVars, platVars, sensVars>>

---------------------------------------------------------------------------
\* The initial states.

InitSetup ==
    /\ setupResult = None
    /\ hassData = {}
    /\ services = {}
    /\ msgHandlers = {}

InitEvents ==
    /\ learn_device_id = None
    /\ bus = <<>>
    /\ delivered = <<>>

InitServices ==
    /\ lastCall = None
    /\ timers = {}
    /\ updates = 0
    /\ now = 0
    /\ nCalls = 0

\* The entity objects the platforms have created, none yet added to hass.
Ents == {"e1", "e2", "e3"}

InitEntities ==
    /\ lifecycle = [e \in Ents |-> "new"]
    /\ entities = <<>>
    /\ connections = [e \in Ents |-> 0]
    /\ onRemove = [e \in Ents |-> <<>>]
    /\ writes = [e \in Ents |-> 0]
    /\ nDispatch = 0

InitPlatform ==
    /\ discovery_info = None
    /\ addCalls = <<>>
    /\ platformDone = FALSE

InitSensors ==
    /\ clock = 0
    /\ this_msg = None
    /\ msgs = <<>>
    /\ ret = None

\* The component before async_setup, for a configuration without
\* message_events and any state of the gateway.
Init ==
    /\ config \in { c \in AdvancedFeatures : c.message_events = None }
    /\ hgi \in HgiValues
    /\ InitSetup /\ InitEvents /\ InitServices
    /\ InitEntities /\ InitPlatform /\ InitSensors

Next ==
    \/ \E startOk \in BOOLEAN : AsyncSetup(startOk)
    \/ CallBindDevice
    \/ CallFakeDevice
    \/ CallForceUpdate
    \/ CallSendPacket
    \/ Tick
    \/ TimerFire

Spec == Init /\ [][Next]_vars

---------------------------------------------------------------------------
\* C1: once async_setup has returned True, bind_device, fake_device and
\* force_update are registered whatever the configuration, and send_packet is
\* registered exactly when the advanced_features.send_packet option is set
\* and true.
C1_ServicesRegistered ==
    setupResult = Some(TRUE) =>
        /\ {"bind_device", "fake_device", "force_update"} \subseteq services
        /\ ("send_packet" \in services) <=>
             ("send_packet" \in DOMAIN config /\ config.send_packet = TRUE)

\* async_setup returned True for a configuration that leaves send_packet off
\* (set to False), and the three other services are there.
C1_Witness ==
    /\ setupResult = Some(TRUE)
    /\ "send_packet" \in DOMAIN config
    /\ ~config.send_packet
    /\ "bind_device" \in services

\* C6 (as stated): every service call that reaches its handler and in which
\* the client library raises nothing is followed by a run of
\* broker.async_update: force_update has run it once when the call returns
\* and has scheduled nothing; each other service has scheduled exactly one
\* run, UPDATE_DELAY seconds after the call, which is pending until then.
C6_UpdateFollows ==
    (lastCall # None /\ lastCall[1].lib = "ok") =>
        LET c == lastCall[1] IN
        /\ c.outcome = "returned"
        /\ IF c.svc = SVC_FORCE_UPDATE
             THEN UpdateRuns(c.ops) = 1 /\ CallLaters(c.ops) = {}
             ELSE /\ UpdateRuns(c.ops) = 0
                  /\ Cardinality(CallLaters(c.ops)) = 1
                  /\ \A i \in CallLaters(c.ops) : c.ops[i].delay = 5
                  /\ now < c.at + 5 =>
                       \E t \in timers : t.id[1] = nCalls /\ t.due = c.at + 5

\* C7: when client.fake_device raises LookupError in the bind_device or the
\* fake_device handler, the handler logs the error and returns normally, and
\* no broker update is scheduled.
C7_LookupErrorHandled ==
    (/\ lastCall # None
     /\ lastCall[1].svc \in {SVC_BIND_DEVICE, SVC_FAKE_DEVICE}
     /\ lastCall[1].lib = "LookupError") =>
        LET c == lastCall[1] IN
        /\ c.ops[1] = [op |-> "fake_device", kwargs |-> c.data]
        /\ c.outcome = "returned"
        /\ \E i \in DOMAIN c.ops : c.ops[i].op = "log_error"
        /\ \A i \in DOMAIN c.ops : c.ops[i].op # "call_later"
        /\ \A t \in timers : t.id[1] # nCalls

\* A fake_device call in which client.fake_device raised LookupError, made
\* while the update an earlier call scheduled is still pending.
C7_Witness ==
    /\ lastCall # None
    /\ lastCall[1].svc = SVC_FAKE_DEVICE
    /\ lastCall[1].lib = "LookupError"
    /\ timers # {}

\* C8 (as stated): the send_packet handler builds the command from the call's
\* data with device_id replaced by client.hgi.id exactly when device_id is
\* the sentinel, from_id is absent or the sentinel, and client.hgi.id is
\* non-empty, and with device_id as given in every other case; the command is
\* sent before the update is scheduled.
C8_CommandBuilt ==
    (/\ lastCall # None
     /\ lastCall[1].svc = SVC_SEND_PACKET
     /\ lastCall[1].lib = "ok") =>
        LET c == lastCall[1]
            replace == /\ c.data.device_id = "18:000730"
                       /\ ("from_id" \notin DOMAIN c.data \/ c.data.from_id = "18:000730")
                       /\ hgi # None
                       /\ hgi[1].id # ""
            expected == [c.data EXCEPT
                           !.device_id = IF replace THEN hgi[1].id ELSE @]
        IN  /\ \E i \in DOMAIN c.ops :
                 c.ops[i].op = "create_cmd" /\ c.ops[i].kwargs = expected
            /\ \E i, j \in DOMAIN c.ops :
                 /\ i < j
                 /\ c.ops[i].op = "send_cmd" /\ c.ops[i].cmd = expected
                 /\ c.ops[j].op = "call_later"

---------------------------------------------------------------------------
\* The domain events (__init__.py, register_domain_events).

\* The messages the client may deliver.
Msgs ==
    { [src |-> s, dst |-> "01:145038", verb |-> v, code |-> "1F09",
       payload |-> "FF0532", dtm |-> 0] :
        s \in {"01:145038", "18:123456"}, v \in {" I", "RQ"} }

\* str(msg._pkt): the packet's line, here its fields in their order
PacketStr(msg) == <<msg.verb, msg.src, msg.dst, msg.code, msg.payload>>

\* f"{msg!r}": a message's repr is its packet's line
Repr(msg) == PacketStr(msg)

\* msg.dtm.isoformat()
IsoFormat(dtm) == <<"iso", dtm>>

\* regex.match(text): the pattern matches at the start of the text
RegexMatch(regex, text) ==
    /\ Len(regex) <= Len(text)
    /\ SubSeq(text, 1, Len(regex)) = regex

MessageEvent(msg) ==
    [event_type |-> "ramses_cc_message",
     data |-> [dtm |-> IsoFormat(msg.dtm), src |-> msg.src, dst |-> msg.dst,
               verb |-> msg.verb, code |-> msg.code, payload |-> msg.payload,
               packet |-> PacketStr(msg)]]

LearnEvent(msg) ==
    [event_type |-> "ramses_cc_learn",
     data |-> [src |-> msg.src, code |-> msg.code, packet |-> PacketStr(msg)]]

\* A faulty variant of ProcessMsg: the message event is fired whenever a regex is
\* configured, matching or not.
ProcessMsgNoMatch(msg, adv, learn) ==
    (IF adv[CONF_MESSAGE_EVENTS] # None
       THEN <<MessageEvent(msg)>> ELSE <<>>)
    \o
    (IF learn # None /\ learn[1] # "" /\ learn[1] = msg.src
       THEN <<LearnEvent(msg)>> ELSE <<>>)

\* A faulty variant of ProcessMsg: the second test is an elif of the first.
ProcessMsgElif(msg, adv, learn) ==
    IF /\ adv[CONF_MESSAGE_EVENTS] # None
       /\ RegexMatch(adv[CONF_MESSAGE_EVENTS][1], Repr(msg))
      THEN <<MessageEvent(msg)>>
    ELSE IF learn # None /\ learn[1] # "" /\ learn[1] = msg.src
      THEN <<LearnEvent(msg)>>
    ELSE <<>>

\* process_msg: the events it fires on hass.bus for one message, in order.
\* adv is broker.config[CONF_ADVANCED_FEATURES], learn is broker.learn_device_id.
ProcessMsg(msg, adv, learn) ==
    (IF /\ adv[CONF_MESSAGE_EVENTS] # None
        /\ RegexMatch(adv[CONF_MESSAGE_EVENTS][1], Repr(msg))
       THEN <<MessageEvent(msg)>> ELSE <<>>)
    \o
    (IF learn # None /\ learn[1] # "" /\ learn[1] = msg.src
       THEN <<LearnEvent(msg)>> ELSE <<>>)

\* The client hands a message to the handlers added to it.
DeliverMsg ==
    \E msg \in Msgs :
        /\ "process_msg" \in msgHandlers
        /\ Len(delivered) < MaxMsgs
        /\ delivered' = Append(delivered, msg)
        /\ bus' = bus \o ProcessMsg(msg, config, learn_device_id)
        /\ UNCHANGED <<learn_device_id, setupVars, svcVars, entVars, platVars, sensVars>>

\* The broker's learn_device_id is set (learning starts) or cleared.
SetLearnDeviceId ==
    \E v \in {None, Some(""), Some("01:145038"), Some("18:123456")} :
        /\ setupResult = Some(TRUE)
        /\ v # learn_device_id
        /\ learn_device_id' = v
        /\ UNCHANGED <<bus, delivered, setupVars, svcVars, entVars, platVars, sensVars>>

\* The component before async_setup, for any configuration.
InitE ==
    /\ config \in AdvancedFeatures
    /\ hgi = None
    /\ InitSetup /\ InitEvents /\ InitServices
    /\ InitEntities /\ InitPlatform /\ InitSensors

NextE ==
    \/ \E startOk \in BOOLEAN : AsyncSetup(startOk)
    \/ DeliverMsg
    \/ SetLearnDeviceId

SpecEvents == InitE /\ [][NextE]_vars

\* The events the delivery of a message (a step that lengthens delivered)
\* added to the bus, and the message delivered.
NewEvents == SubSeq(bus', Len(bus) + 1, Len(bus'))
NewMsg == delivered'[Len(delivered')]
IsMessageEvent(e) == e.event_type = "ramses_cc_message"
IsLearnEvent(e) == e.event_type = "ramses_cc_learn"

\* C2: each message delivered to the handler fires exactly one
\* ramses_cc_message event when a message_events regex is configured and
\* matches the message's repr, and none otherwise; the event carries the
\* src, dst, verb, code, payload and packet of that message.
C2_MessageEvent ==
    [][ Len(delivered') = Len(delivered) + 1 =>
          LET fired == SelectSeq(NewEvents, IsMessageEvent)
              m == NewMsg
          IN  IF /\ config.message_events # None
                 /\ RegexMatch(config.message_events[1], PacketStr(m))
                THEN /\ Len(fired) = 1
                     /\ fired[1].data.src = m.src
                     /\ fired[1].data.dst = m.dst
                     /\ fired[1].data.verb = m.verb
                     /\ fired[1].data.code = m.code
                     /\ fired[1].data.payload = m.payload
                     /\ fired[1].data.packet = PacketStr(m)
                ELSE fired = <<>>
      ]_vars

\* Two messages were delivered under a configured regex: one matched and
\* fired its event, the other did not match and fired none.
C2_Witness ==
    /\ config.message_events # None
    /\ Len(delivered) = 2
    /\ Len(SelectSeq(bus, IsMessageEvent)) = 1
    /\ RegexMatch(config.message_events[1], PacketStr(delivered[1]))
    /\ ~RegexMatch(config.message_events[1], PacketStr(delivered[2]))

\* C3: each message delivered fires exactly one ramses_cc_learn event if and
\* only if learn_device_id is set, non-empty and equal to the message's
\* source id, whatever the message_events regex is or matches; when both
\* events fire for a message, the ramses_cc_message event comes first.
C3_LearnEvent ==
    [][ Len(delivered') = Len(delivered) + 1 =>
          LET fired == SelectSeq(NewEvents, IsLearnEvent)
              m == NewMsg
          IN  /\ IF /\ learn_device_id # None
                    /\ learn_device_id[1] # ""
                    /\ learn_device_id[1] = m.src
                   THEN /\ Len(fired) = 1
                        /\ fired[1].data.src = m.src
                   ELSE fired = <<>>
              /\ Len(NewEvents) = 2 =>
                   /\ IsMessageEvent(NewEvents[1])
                   /\ IsLearnEvent(NewEvents[2])
      ]_vars

\* A message from the device being learnt that also matched the regex: the
\* bus ends with its message event followed by its learn event.
C3_Witness ==
    /\ Len(bus) >= 2
    /\ delivered # <<>>
    /\ learn_device_id = Some(delivered[Len(delivered)].src)
    /\ IsMessageEvent(bus[Len(bus) - 1])
    /\ IsLearnEvent(bus[Len(bus)])
    /\ bus[Len(bus)].data.src = delivered[Len(delivered)].src

---------------------------------------------------------------------------
\* RamsesEntity (__init__.py) and the dispatcher's SIGNAL_UPDATE.

\* entity.unique_id
UniqueId(e) ==
    CASE e = "e1" -> "01:145038-window_open"
      [] e = "e2" -> "01:145038-battery_low"
      [] OTHER    -> "04:111111-battery_low"

\* A faulty variant of AsyncAddedToHass: the disconnect is not handed to
\* async_on_remove.
AsyncAddedToHassNoOnRemove(e) ==
    /\ setupResult = Some(TRUE)
    /\ lifecycle[e] = "new"
    /\ lifecycle' = [lifecycle EXCEPT ![e] = "added"]
    /\ entities' = (UniqueId(e) :> e) @@ entities
    /\ connections' = [connections EXCEPT ![e] = @ + 1]
    /\ UNCHANGED <<onRemove, writes, nDispatch>>
    /\ UNCHANGED <<setupVars, eventVars, svcVars, platVars, sensVars>>

\* RamsesEntity.async_added_to_hass, which hass calls once for an entity it
\* adds: the entity is put in broker._entities, its async_write_ha_state is
\* connected to SIGNAL_UPDATE, and the disconnect is kept for the removal.
AsyncAddedToHass(e) ==
    /\ setupResult = Some(TRUE)
    /\ lifecycle[e] = "new"
    /\ lifecycle' = [lifecycle EXCEPT ![e] = "added"]
    /\ entities' = (UniqueId(e) :> e) @@ entities
    /\ connections' = [connections EXCEPT ![e] = @ + 1]
    /\ onRemove' = [onRemove EXCEPT ![e] = Append(@, "disconnect")]
    /\ UNCHANGED <<writes, nDispatch>>
    /\ UNCHANGED <<setupVars, eventVars, svcVars, platVars, sensVars>>

\* The removal of an added entity: hass runs the callbacks async_on_remove
\* holds, each undoing one connection.
EntityRemoved(e) ==
    /\ lifecycle[e] = "added"
    /\ lifecycle' = [lifecycle EXCEPT ![e] = "removed"]
    /\ connections' = [connections EXCEPT ![e] = @ - Len(onRemove[e])]
    /\ onRemove' = [onRemove EXCEPT ![e] = <<>>]
    /\ UNCHANGED <<entities, writes, nDispatch>>
    /\ UNCHANGED <<setupVars, eventVars, svcVars, platVars, sensVars>>

\* A dispatch of SIGNAL_UPDATE: every connected target is called once per
\* connection.
SignalUpdate ==
    /\ nDispatch < MaxDispatch
    /\ nDispatch' = nDispatch + 1
    /\ writes' = [e \in Ents |-> connections[e]]
    /\ UNCHANGED <<lifecycle, entities, connections, onRemove>>
    /\ UNCHANGED <<setupVars, eventVars, svcVars, platVars, sensVars>>

InitEnt ==
    /\ config \in { c \in AdvancedFeatures : c.message_events = None }
    /\ hgi = None
    /\ InitSetup /\ InitEvents /\ InitServices
    /\ InitEntities /\ InitPlatform /\ InitSensors

NextEnt ==
    \/ \E startOk \in BOOLEAN : AsyncSetup(startOk)
    \/ \E e \in Ents : AsyncAddedToHass(e)
    \/ \E e \in Ents : EntityRemoved(e)
    \/ SignalUpdate

SpecEntities == InitEnt /\ [][NextEnt]_vars

\* C5: whatever entities were added and removed before, a dispatch of
\* SIGNAL_UPDATE calls async_write_ha_state exactly once on every entity
\* that is added and not since removed, and on no other entity.
C5_DispatchWrites ==
    [][ nDispatch' = nDispatch + 1 =>
          \A e \in Ents :
              writes'[e] = IF lifecycle[e] = "added" THEN 1 ELSE 0
      ]_vars

\* After a dispatch: an added entity was written once, a removed one and a
\* never-added one were not.
C5_Witness ==
    /\ nDispatch > 0
    /\ \E a, r, n \in Ents :
         /\ lifecycle[a] = "added" /\ writes[a] = 1
         /\ lifecycle[r] = "removed" /\ writes[r] = 0
         /\ lifecycle[n] = "new" /\ writes[n] = 0

---------------------------------------------------------------------------
\* The binary-sensor platform (binary_sensor.py, async_setup_platform).

\* A RamsesBinarySensorEntityDescription: its key, rf_class (RamsesRFEntity
\* unless given) and entity_class (None unless given).
Description(key, rf_class, entity_class) ==
    [key |-> key, rf_class |-> rf_class, entity_class |-> entity_class]

Generic(key) == Description(key, "RamsesRFEntity", None)

\* sensor_types, in the order of the table
SensorTypes ==
    << Description("gateway", "Gateway", Some("RamsesGatewayBinarySensor")),
       Description("system", "System", Some("RamsesSystemBinarySensor")),
       Generic("window_open"),
       Generic("actuator_state"),
       Generic("battery_low"),
       Description("active_fault", "Logbook", Some("RamsesLogbookBinarySensor")),
       Generic("ch_active"),
       Generic("ch_enabled"),
       Generic("cooling_active"),
       Generic("cooling_enabled"),
       Generic("dhw_active"),
       Generic("dhw_enabled"),
       Generic("flame_active"),
       Generic("dhw_blocking"),
       Generic("otc_active"),
       Generic("summer_mode"),
       Generic("fault_present"),
       Generic("bypass_position"),
       Generic("bit_2_4"),
       Generic("bit_2_5"),
       Generic("bit_2_6"),
       Generic("bit_2_7"),
       Generic("bit_3_7"),
       Generic("bit_6_6") >>

\* The protocol objects a discovery may name: each with its id, the classes
\* it is an instance of, and the attributes it has.
DevicePool ==
    { [id |-> "18:123456", classes |-> {"Gateway"},
       attrs |-> {"gateway", "system"}],
      [id |-> "01:145038", classes |-> {"RamsesRFEntity", "System", "Logbook"},
       attrs |-> {"system", "active_fault", "gateway"}],
      [id |-> "04:111111", classes |-> {"RamsesRFEntity"},
       attrs |-> {"window_open", "battery_low", "active_fault"}],
      [id |-> "10:048122", classes |-> {"RamsesRFEntity"},
       attrs |-> {"ch_active", "flame_active", "fault_present", "bit_2_4"}],
      [id |-> "13:237335", classes |-> {"RamsesRFEntity"},
       attrs |-> {"actuator_state"}] }

\* The lists of up to MaxDevices different devices
DeviceLists ==
    UNION { { l \in [1..n -> DevicePool] :
                \A i, j \in 1..n : i # j => l[i] # l[j] } : n \in 0..MaxDevices }

\* A faulty variant of Qualifies: the class alone decides.
QualifiesClassOnly(device, description) ==
    description.rf_class \in device.classes

\* isinstance(device, description.rf_class) and hasattr(device, description.key)
Qualifies(device, description) ==
    /\ description.rf_class \in device.classes
    /\ description.key \in device.attrs

\* (description.entity_class or RamsesBinarySensor)(broker, device, description)
NewEntity(device, description) ==
    [class |-> IF description.entity_class # None
                 THEN description.entity_class[1] ELSE "RamsesBinarySensor",
     device |-> device.id,
     key |-> description.key,
     unique_id |-> <<device.id, "-", description.key>>]

\* The entities of one device: one per description it qualifies for, in the
\* table's order
EntitiesOf(device) ==
    LET Test(description) == Qualifies(device, description)
        chosen == SelectSeq(SensorTypes, Test)
    IN  [i \in 1..Len(chosen) |-> NewEntity(device, chosen[i])]

\* The list comprehension: device by device
RECURSIVE BuildEntities(_)
BuildEntities(devices) ==
    IF devices = <<>>
      THEN <<>>
      ELSE EntitiesOf(Head(devices)) \o BuildEntities(Tail(devices))

\* async_setup_platform: nothing without discovery_info; otherwise one call
\* of async_add_entities with the entities built.
AsyncSetupPlatform ==
    /\ ~platformDone
    /\ discovery_info = None \/ BROKER \in hassData
    /\ platformDone' = TRUE
    /\ IF discovery_info = None
         THEN addCalls' = addCalls
         ELSE addCalls' = Append(addCalls, BuildEntities(discovery_info[1].devices))
    /\ UNCHANGED discovery_info
    /\ UNCHANGED <<setupVars, eventVars, svcVars, entVars, sensVars>>

InitPlat ==
    /\ config \in { c \in AdvancedFeatures : c.message_events = None }
    /\ hgi = None
    /\ discovery_info \in {None} \cup { Some([devices |-> l]) : l \in DeviceLists }
    /\ addCalls = <<>>
    /\ platformDone = FALSE
    /\ InitSetup /\ InitEvents /\ InitServices /\ InitEntities /\ InitSensors

NextPlat ==
    \/ \E startOk \in BOOLEAN : AsyncSetup(startOk)
    \/ AsyncSetupPlatform

SpecPlatform == InitPlat /\ [][NextPlat]_vars

\* C4: async_setup_platform adds nothing and does not call
\* async_add_entities when discovery_info is None; otherwise it creates
\* exactly one entity for each (device, description) pair in which the device
\* is an instance of the description's rf_class and has the attribute the
\* description's key names, none for any other pair, and the entity's class
\* is the description's entity_class when set and RamsesBinarySensor
\* otherwise.
C4_EntitiesCreated ==
    platformDone =>
        IF discovery_info = None
          THEN addCalls = <<>>
          ELSE LET devices == discovery_info[1].devices
                   made == addCalls[1]
                   Of(d, t) == { k \in DOMAIN made :
                                   made[k].device = d.id /\ made[k].key = t.key }
               IN  /\ Len(addCalls) = 1
                   /\ \A i \in DOMAIN devices, j \in DOMAIN SensorTypes :
                        LET d == devices[i]
                            t == SensorTypes[j]
                        IN  IF t.rf_class \in d.classes /\ t.key \in d.attrs
                              THEN /\ Cardinality(Of(d, t)) = 1
                                   /\ \A k \in Of(d, t) :
                                        made[k].class =
                                          IF t.entity_class = None
                                            THEN "RamsesBinarySensor"
                                            ELSE t.entity_class[1]
                              ELSE Of(d, t) = {}
                   /\ \A k \in DOMAIN made :
                        \E i \in DOMAIN devices, j \in DOMAIN SensorTypes :
                            k \in Of(devices[i], SensorTypes[j])

\* A discovery of several devices was set up: entities of a description's
\* own class and of the generic class were made, and a device that has an
\* attribute ("active_fault") without being of the description's class got
\* no entity for it.
C4_Witness ==
    /\ platformDone
    /\ discovery_info # None
    /\ Len(discovery_info[1].devices) >= 2
    /\ Len(addCalls) = 1
    /\ \E k \in DOMAIN addCalls[1] : addCalls[1][k].class = "RamsesSystemBinarySensor"
    /\ \E k \in DOMAIN addCalls[1] : addCalls[1][k].class = "RamsesBinarySensor"
    /\ \E i \in DOMAIN discovery_info[1].devices :
         discovery_info[1].devices[i].id = "04:111111"
    /\ \A k \in DOMAIN addCalls[1] :
         ~(addCalls[1][k].device = "04:111111" /\ addCalls[1][k].key = "active_fault")

---------------------------------------------------------------------------
\* The properties of the special binary sensors (binary_sensor.py).  A
\* property's value is None when the getter ends without a return, and
\* Some(b) when it returns the boolean b.

\* timedelta(seconds=300), RamsesGatewayBinarySensor.is_on
GATEWAY_SECONDS == 300

\* timedelta(seconds=1200), RamsesLogbookBinarySensor.available
LOGBOOK_SECONDS == 1200

\* msg.payload["remaining_seconds"] * 3, RamsesSystemBinarySensor.available
SYNC_CYCLES == 3

\* RamsesGatewayBinarySensor.is_on; msg is gwy._protocol._this_msg
GatewayIsOn(msg, t) ==
    IF msg # None
      THEN Some(t - msg[1].dtm > GATEWAY_SECONDS)
      ELSE None

\* RamsesLogbookBinarySensor.available; ms is device._msgs
LogbookAvailable(ms, t) ==
    LET msg == Get(ms, "0418")
    IN  IF msg # None
          THEN Some(t - msg[1].dtm < LOGBOOK_SECONDS)
          ELSE None

\* RamsesSystemBinarySensor.available; ms is device._msgs
SystemAvailable(ms, t) ==
    LET msg == Get(ms, "1F09")
    IN  IF msg # None
          THEN Some(t - msg[1].dtm < msg[1].payload.remaining_seconds * SYNC_CYCLES)
          ELSE None

\* RamsesSystemBinarySensor.is_on
SystemIsOn(ms, t) == SystemAvailable(ms, t)

\* A property is read: ret holds its name and value.
Read(name, value) ==
    /\ ret' = Some([prop |-> name, value |-> value])
    /\ UNCHANGED <<clock, this_msg, msgs>>
    /\ UNCHANGED <<setupVars, eventVars, svcVars, entVars, platVars>>

ReadGatewayIsOn == Read("gateway.is_on", GatewayIsOn(this_msg, clock))
ReadLogbookAvailable == Read("logbook.available", LogbookAvailable(msgs, clock))
ReadSystemAvailable == Read("system.available", SystemAvailable(msgs, clock))
ReadSystemIsOn == Read("system.is_on", SystemIsOn(msgs, clock))

\* The times messages were received at, and the times the properties are
\* read at: ages on both sides of each limit.
Dtms == {0, 100}
Clocks == {100, 399, 400, 401, 1299, 1300, 1301}

\* device._msgs: the latest message of each code received, if any
MsgDicts ==
    LET Fault == { [dtm |-> d, payload |-> [log_idx |-> "00"]] : d \in Dtms }
        Sync  == { [dtm |-> d, payload |-> [remaining_seconds |-> r]] :
                     d \in Dtms, r \in {0, 100, 400} }
    IN  { <<>> }
        \cup { [c \in {"0418"} |-> f] : f \in Fault }
        \cup { [c \in {"1F09"} |-> y] : y \in Sync }
        \cup { ("0418" :> f) @@ ("1F09" :> y) : f \in Fault, y \in Sync }

InitSens ==
    /\ config = [message_events |-> None]
    /\ hgi = None
    /\ clock \in Clocks
    /\ this_msg \in {None} \cup { Some([dtm |-> d]) : d \in Dtms }
    /\ msgs \in MsgDicts
    /\ ret = None
    /\ InitSetup /\ InitEvents /\ InitServices /\ InitEntities /\ InitPlatform

NextSens ==
    \/ ReadGatewayIsOn
    \/ ReadLogbookAvailable
    \/ ReadSystemAvailable
    \/ ReadSystemIsOn

SpecSensors == InitSens /\ [][NextSens]_vars

\* C9 (as stated): RamsesGatewayBinarySensor.is_on returns True when the
\* most recent message was received no more than 300 seconds ago, and does
\* not return True when it is older than that.
C9_GatewaySeenRecently ==
    (ret # None /\ ret[1].prop = "gateway.is_on" /\ this_msg # None) =>
        LET age == clock - this_msg[1].dtm
        IN  /\ age <= 300 => ret[1].value = Some(TRUE)
            /\ age > 300 => ret[1].value # Some(TRUE)

\* C10 (as stated): available of the logbook and of the system sensor always
\* returns a boolean: True when the 0418 message is younger than 1200
\* seconds (logbook) or the 1F09 message is younger than 3 times its
\* remaining_seconds (system), and False in every other case, the case of no
\* such message included.
C10_AvailableIsBoolean ==
    /\ (ret # None /\ ret[1].prop = "logbook.available") =>
         ret[1].value =
           Some("0418" \in DOMAIN msgs /\ clock - msgs["0418"].dtm < 1200)
    /\ (ret # None /\ ret[1].prop = "system.available") =>
         ret[1].value =
           Some(/\ "1F09" \in DOMAIN msgs
                /\ clock - msgs["1F09"].dtm
                     < 3 * msgs["1F09"].payload.remaining_seconds)

====
